---------------------------- MODULE Spec2Model ----------------------------
(***************************************************************************)
(* Model of package xcontainer: the circular doubly-linked List (list.go)  *)
(* and the OrderedMap built on it.                                         *)
(*                                                                         *)
(* A heap is a sequence of node records [prev, next, Val]; a *List[T] is   *)
(* an index into the heap and the nil pointer is 0.  Nodes are never freed *)
(* (Go is garbage collected), so a removed node keeps its fields.          *)
(***************************************************************************)
EXTENDS Integers, Sequences, FiniteSets, TLC

\* Bounds of the model.
MaxNodes == 3        \* nodes ever allocated by the list client
MaxKeys == 2         \* map keys are 1..MaxKeys
MaxMapNodes == 3     \* nodes ever allocated by the map

nil == 0
\* The payloads.  T of List[T] and V of OrderedMap[K, V] are `any`: the code
\* copies payloads and never looks into them, so two of them are enough to
\* tell any two positions apart.
Vals == {1, 2}
Keys == 1..MaxKeys

RECURSIVE SeqsUpTo(_)
SeqsUpTo(n) == IF n = 0 THEN {<<>>}
               ELSE SeqsUpTo(n - 1) \cup [1..n -> Vals]
\* The sequences passed to NewList/InsertSeq*.
ValSeqs == SeqsUpTo(MaxNodes)

VARIABLES
    heap,      \* nodes of List[T] allocated by the list client
    refs,      \* node references the list client has obtained
    removed,   \* nodes that were the receiver of Remove
    lists,     \* reference model: the cyclic order of each list, as a sequence of nodes
    last,      \* the last list call: operation, receiver, argument, result
    mheap,     \* nodes of List[entry[K, V]] allocated by the map
    m,         \* OrderedMap.m: key -> node
    mInit,     \* OrderedMap.m != nil
    head,      \* OrderedMap.head
    order,     \* reference model: present keys in the order their occupancy began
    mremoved,  \* map nodes that were the receiver of Remove
    mlast,     \* the last map call
    it         \* the iterator being consumed: its kind, receiver and position

lvars == <<heap, refs, removed, lists, last>>
mvars == <<mheap, m, mInit, head, order, mremoved, mlast>>
vars == <<heap, refs, removed, lists, last, mheap, m, mInit, head, order, mremoved, mlast, it>>

-----------------------------------------------------------------------------
(* list.go *)

\* func (list *List[T]) Prev() *List[T]
Prev(h, list) == IF list = nil THEN nil ELSE h[list].prev

\* func (list *List[T]) Next() *List[T]
Next(h, list) == IF list = nil THEN nil ELSE h[list].next

\* func (list *List[T]) InsertBefore(v T) *List[T]
\* node is the freshly allocated &List[T]{next: list, Val: v}
InsertBefore(h, list, v) ==
    LET node == Len(h) + 1
        h0 == Append(h, [prev |-> nil, next |-> list, Val |-> v])
    IN  IF list # nil
        THEN [h   |-> [h0 EXCEPT ![node].prev = h0[list].prev,
                                 ![list].prev = node],
              ret |-> list]
        ELSE [h   |-> [h0 EXCEPT ![node].prev = node, ![node].next = node],
              ret |-> node]

\* InsertAfter that leaves the first node of a list without links to itself.
InsertAfter_NilUnlinked(h, list, v) ==
    LET node == Len(h) + 1
        h0 == Append(h, [prev |-> list, next |-> nil, Val |-> v])
    IN  IF list # nil
        THEN [h   |-> [h0 EXCEPT ![node].next = h0[list].next,
                                 ![list].next = node],
              ret |-> list]
        ELSE [h   |-> h0, ret |-> node]

\* func (list *List[T]) InsertAfter(v T) *List[T]
InsertAfter(h, list, v) ==
    LET node == Len(h) + 1
        h0 == Append(h, [prev |-> list, next |-> nil, Val |-> v])
    IN  IF list # nil
        THEN [h   |-> [h0 EXCEPT ![node].next = h0[list].next,
                                 ![list].next = node],
              ret |-> list]
        ELSE [h   |-> [h0 EXCEPT ![node].prev = node, ![node].next = node],
              ret |-> node]

\* Remove that reports the empty list when list is its own predecessor.
Remove_SoleGivesNil(h, list) ==
    IF list = nil THEN [h |-> h, ret |-> nil]
    ELSE LET p  == h[list].prev
             s  == h[list].next
             h1 == [h EXCEPT ![p].next = s]
             h2 == [h1 EXCEPT ![s].prev = p]
         IN  [h |-> h2, ret |-> IF p = list THEN nil ELSE h2[list].prev]

\* func (list *List[T]) Remove() *List[T]
\* list.prev.next, list.next.prev = list.next, list.prev: the operands are
\* evaluated first, then the two stores are done left to right; the result
\* list.prev is read after the stores.
Remove(h, list) ==
    IF list = nil THEN [h |-> h, ret |-> nil]
    ELSE LET p  == h[list].prev
             s  == h[list].next
             h1 == [h EXCEPT ![p].next = s]
             h2 == [h1 EXCEPT ![s].prev = p]
         IN  [h |-> h2, ret |-> h2[list].prev]

\* func (list *List[T]) InsertSeqBefore(seq iter.Seq[T]) *List[T]
RECURSIVE InsertSeqBefore(_, _, _)
InsertSeqBefore(h, list, vs) ==
    IF vs = <<>> THEN [h |-> h, ret |-> list]
    ELSE LET r == InsertBefore(h, list, Head(vs))
         IN  InsertSeqBefore(r.h, r.ret, Tail(vs))

\* The loop with tail = tail.InsertAfter(v), without the step to the new node.
RECURSIVE InsertSeqAfterLoop_TailStays(_, _, _, _)
InsertSeqAfterLoop_TailStays(h, list, tail, vs) ==
    IF vs = <<>> THEN [h |-> h, ret |-> list]
    ELSE LET r     == InsertAfter(h, tail, Head(vs))
             tail2 == r.ret
             list2 == IF list = nil THEN tail2 ELSE list
         IN  InsertSeqAfterLoop_TailStays(r.h, list2, tail2, Tail(vs))

\* The loop of InsertSeqAfter: tail = tail.InsertAfter(v).Next(), and list
\* takes the first tail when it was nil.
RECURSIVE InsertSeqAfterLoop(_, _, _, _)
InsertSeqAfterLoop(h, list, tail, vs) ==
    IF vs = <<>> THEN [h |-> h, ret |-> list]
    ELSE LET r     == InsertAfter(h, tail, Head(vs))
             tail2 == Next(r.h, r.ret)
             list2 == IF list = nil THEN tail2 ELSE list
         IN  InsertSeqAfterLoop(r.h, list2, tail2, Tail(vs))

\* func (list *List[T]) InsertSeqAfter(seq iter.Seq[T]) *List[T]
InsertSeqAfter(h, list, vs) == InsertSeqAfterLoop(h, list, list, vs)

\* func NewListFromSeq[T any](seq iter.Seq[T]) (list *List[T])
NewListFromSeq(h, vs) == InsertSeqBefore(h, nil, vs)

\* func NewList[T any](vals ...T) *List[T]
NewList(h, vs) == NewListFromSeq(h, vs)

\* The advance argument of seq: (*List[T]).Next or (*List[T]).Prev.
advance(h, cur, dir) == IF dir = "next" THEN Next(h, cur) ELSE Prev(h, cur)

\* The loop of seq, consumed to the end.  out is what was yielded so far.
\* The walk is a deterministic walk in a heap of Len(h) nodes: when it has
\* yielded more than Len(h) nodes without coming back to list it never will,
\* and the loop does not end (done = FALSE).
RECURSIVE seqLoop(_, _, _, _, _)
seqLoop(h, list, cur, dir, out) ==
    LET out2 == Append(out, cur)
        nxt  == advance(h, cur, dir)
    IN  IF nxt = list THEN [out |-> out2, done |-> TRUE]
        ELSE IF nxt = nil \/ Len(out2) > Len(h) THEN [out |-> out2, done |-> FALSE]
        ELSE seqLoop(h, list, nxt, dir, out2)

\* func (list *List[T]) seq(advance func(*List[T]) *List[T]) iter.Seq[*List[T]]
seq(h, list, dir) ==
    IF list = nil THEN [out |-> <<>>, done |-> TRUE]
    ELSE seqLoop(h, list, list, dir, <<>>)

\* func (list *List[T]) All() iter.Seq[*List[T]]
All(h, list) == seq(h, list, "next")

\* func (list *List[T]) Backward() iter.Seq[*List[T]]
Backward(h, list) == seq(h, list, "prev")

ValsOf(h, ns) == [i \in 1..Len(ns) |-> h[ns[i]].Val]

\* func (list *List[T]) Values() iter.Seq[T]
Values(h, list) ==
    LET a == All(h, list) IN [out |-> ValsOf(h, a.out), done |-> a.done]

\* func (list *List[T]) ValuesBackward() iter.Seq[T]
ValuesBackward(h, list) ==
    LET a == Backward(h, list) IN [out |-> ValsOf(h, a.out), done |-> a.done]

-----------------------------------------------------------------------------
(* The iterators step by step.  The function returned by seq is at "yield"  *)
(* when it is about to call yield(cur), and at "done" when it has returned. *)

\* The call of the function returned by seq, up to the loop.
seqStart(list) ==
    IF list = nil THEN [pc |-> "done", cur |-> nil]
    ELSE [pc |-> "yield", cur |-> list]

\* The loop of seq that goes on whatever yield returned.
seqTurn_IgnoresStop(h, list, cur, dir, ok) ==
    LET nxt == advance(h, cur, dir)
    IN  [pc |-> IF nxt = list THEN "done" ELSE "yield", cur |-> nxt, followed |-> 1]

\* One turn of the loop of seq after yield(cur) returned ok: it returns, or
\* it follows one link (followed = 1) and returns when it is back at list.
seqTurn(h, list, cur, dir, ok) ==
    IF ~ok THEN [pc |-> "done", cur |-> cur, followed |-> 0]
    ELSE LET nxt == advance(h, cur, dir)
         IN  [pc |-> IF nxt = list THEN "done" ELSE "yield", cur |-> nxt, followed |-> 1]

ListKinds == {"All", "Backward", "Values", "ValuesBackward"}
MapKinds == {"MapAll", "MapKeys", "MapValues"}

\* Which link the seq under an iterator follows.
DirOf(kind) == IF kind \in {"Backward", "ValuesBackward"} THEN "prev" ELSE "next"

\* The range loops between the consumer and seq: Values and ValuesBackward
\* range over All and Backward, OrderedMap.All ranges over head.Values(),
\* Keys and Values of the map range over OrderedMap.All.
Wrappers(kind) ==
    CASE kind \in {"All", "Backward"} -> 0
      [] kind \in {"Values", "ValuesBackward"} -> 1
      [] kind = "MapAll" -> 2
      [] OTHER -> 3

\* What the yield of seq returns when the consumer's yield returned ok: each
\* wrapper's loop body is "if !yield(..) { return }", and leaving the body
\* of a range over a function makes the yield one level down return false.
RECURSIVE yieldResult(_, _)
yieldResult(wrappers, ok) ==
    IF wrappers = 0 THEN ok
    ELSE yieldResult(wrappers - 1, IF ~ok THEN FALSE ELSE TRUE)

-----------------------------------------------------------------------------
(* Reference model of the lists: each list is the sequence of its nodes in  *)
(* forward cyclic order, starting at its oldest surviving position.         *)

IndexOf(L, n) == CHOOSE i \in 1..Len(L) : L[i] = n
InSeq(L, n) == \E i \in 1..Len(L) : L[i] = n
InsertAt(L, i, n) == SubSeq(L, 1, i - 1) \o <<n>> \o SubSeq(L, i, Len(L))
DropAt(L, i) == SubSeq(L, 1, i - 1) \o SubSeq(L, i + 1, Len(L))

ListOf(ls, n) == CHOOSE L \in ls : InSeq(L, n)

\* n goes immediately before ref; before the first node is, cyclically, the end.
AbsBefore(L, ref, n) ==
    LET i == IndexOf(L, ref) IN IF i = 1 THEN Append(L, n) ELSE InsertAt(L, i, n)

\* n goes immediately after ref.
AbsAfter(L, ref, n) == InsertAt(L, IndexOf(L, ref) + 1, n)

AbsInsertBefore(ls, ref, n) ==
    IF ref = nil THEN ls \cup {<<n>>}
    ELSE LET L == ListOf(ls, ref) IN (ls \ {L}) \cup {AbsBefore(L, ref, n)}

AbsInsertAfter(ls, ref, n) ==
    IF ref = nil THEN ls \cup {<<n>>}
    ELSE LET L == ListOf(ls, ref) IN (ls \ {L}) \cup {AbsAfter(L, ref, n)}

AbsRemove(ls, ref) ==
    IF ref = nil THEN ls
    ELSE LET L  == ListOf(ls, ref)
             L2 == DropAt(L, IndexOf(L, ref))
         IN  (ls \ {L}) \cup (IF L2 = <<>> THEN {} ELSE {L2})

\* Nodes n, n+1, .., n+k-1 inserted one after the other before ref; when ref
\* is nil the first one becomes the reference.
RECURSIVE AbsInsertSeqBefore(_, _, _, _)
AbsInsertSeqBefore(ls, ref, n, k) ==
    IF k = 0 THEN ls
    ELSE AbsInsertSeqBefore(AbsInsertBefore(ls, ref, n),
                            IF ref = nil THEN n ELSE ref, n + 1, k - 1)

\* Nodes n, n+1, .., n+k-1 inserted each after the previous one, the first
\* after tail.
RECURSIVE AbsInsertSeqAfter(_, _, _, _)
AbsInsertSeqAfter(ls, tail, n, k) ==
    IF k = 0 THEN ls
    ELSE AbsInsertSeqAfter(AbsInsertAfter(ls, tail, n), n, n + 1, k - 1)

Linked == (1..Len(heap)) \ removed

-----------------------------------------------------------------------------
(* The list client: any sequence of calls on nil or on a linked node it     *)
(* holds a reference to.                                                    *)

Receivers == (refs \ removed) \cup {nil}
Got(r) == IF r = nil THEN {} ELSE {r}
Call(op, list, arg, ret) == [op |-> op, list |-> list, arg |-> arg, ret |-> ret]

DoNewList(vs) ==
    /\ UNCHANGED <<mvars, it>>
    /\ Len(heap) + Len(vs) <= MaxNodes
    /\ LET r == NewList(heap, vs) IN
        /\ heap' = r.h
        /\ refs' = refs \cup Got(r.ret)
        /\ lists' = AbsInsertSeqBefore(lists, nil, Len(heap) + 1, Len(vs))
        /\ last' = Call("NewList", nil, vs, r.ret)
    /\ UNCHANGED removed

DoInsertBefore(list, v) ==
    /\ UNCHANGED <<mvars, it>>
    /\ Len(heap) < MaxNodes
    /\ LET r == InsertBefore(heap, list, v) IN
        /\ heap' = r.h
        /\ refs' = refs \cup Got(r.ret)
        /\ lists' = AbsInsertBefore(lists, list, Len(heap) + 1)
        /\ last' = Call("InsertBefore", list, <<v>>, r.ret)
    /\ UNCHANGED removed

DoInsertAfter(list, v) ==
    /\ UNCHANGED <<mvars, it>>
    /\ Len(heap) < MaxNodes
    /\ LET r == InsertAfter(heap, list, v) IN
        /\ heap' = r.h
        /\ refs' = refs \cup Got(r.ret)
        /\ lists' = AbsInsertAfter(lists, list, Len(heap) + 1)
        /\ last' = Call("InsertAfter", list, <<v>>, r.ret)
    /\ UNCHANGED removed

DoInsertSeqBefore(list, vs) ==
    /\ UNCHANGED <<mvars, it>>
    /\ Len(heap) + Len(vs) <= MaxNodes
    /\ LET r == InsertSeqBefore(heap, list, vs) IN
        /\ heap' = r.h
        /\ refs' = refs \cup Got(r.ret)
        /\ lists' = AbsInsertSeqBefore(lists, list, Len(heap) + 1, Len(vs))
        /\ last' = Call("InsertSeqBefore", list, vs, r.ret)
    /\ UNCHANGED removed

DoInsertSeqAfter(list, vs) ==
    /\ UNCHANGED <<mvars, it>>
    /\ Len(heap) + Len(vs) <= MaxNodes
    /\ LET r == InsertSeqAfter(heap, list, vs) IN
        /\ heap' = r.h
        /\ refs' = refs \cup Got(r.ret)
        /\ lists' = AbsInsertSeqAfter(lists, list, Len(heap) + 1, Len(vs))
        /\ last' = Call("InsertSeqAfter", list, vs, r.ret)
    /\ UNCHANGED removed

DoRemove(list) ==
    /\ UNCHANGED <<mvars, it>>
    /\ LET r == Remove(heap, list) IN
        /\ heap' = r.h
        /\ refs' = refs \cup Got(r.ret)
        /\ last' = Call("Remove", list, <<>>, r.ret)
    /\ removed' = removed \cup Got(list)
    /\ lists' = AbsRemove(lists, list)

DoPrev(list) ==
    /\ UNCHANGED <<mvars, it>>
    /\ refs' = refs \cup Got(Prev(heap, list))
    /\ last' = Call("Prev", list, <<>>, Prev(heap, list))
    /\ UNCHANGED <<heap, removed, lists>>

DoNext(list) ==
    /\ UNCHANGED <<mvars, it>>
    /\ refs' = refs \cup Got(Next(heap, list))
    /\ last' = Call("Next", list, <<>>, Next(heap, list))
    /\ UNCHANGED <<heap, removed, lists>>

Idle == [kind |-> "none", list |-> nil, cur |-> nil, pc |-> "idle",
         yielded |-> <<>>, links |-> 0, stop |-> FALSE]

\* The consumer starts to range over an iterator of a list.
IterStartList(kind, list) ==
    /\ it.pc = "idle"
    /\ it' = [kind |-> kind, list |-> list, cur |-> seqStart(list).cur,
              pc |-> seqStart(list).pc, yielded |-> <<>>, links |-> 0,
              stop |-> FALSE]
    /\ UNCHANGED <<lvars, mvars>>

ListInit ==
    /\ heap = <<>>
    /\ refs = {}
    /\ removed = {}
    /\ lists = {}
    /\ last = Call("init", nil, <<>>, nil)

-----------------------------------------------------------------------------
(* OrderedMap.  A map value is the record [mheap, m, mInit, head]: the      *)
(* nodes of its list, the index m.m, whether m.m is non-nil, and m.head.    *)

EmptyFn == [x \in {} |-> nil]

\* func enter[K comparable, V any](key K, val V) entry[K, V]
enter(key, val) == [key |-> key, val |-> val]

\* The zero value of V, returned by Lookup for a missing key.
zero == 0

\* The zero-value OrderedMap.
ZeroMap == [mheap |-> <<>>, m |-> EmptyFn, mInit |-> FALSE, head |-> nil]

\* func (m *OrderedMap[K, V]) init()
init(om) == IF om.mInit THEN om ELSE [om EXCEPT !.mInit = TRUE, !.m = EmptyFn]

\* Set that leaves the value of a present key as it was.
Set_KeepsOldValue(om, key, val) ==
    LET o == init(om) IN
    IF key \in DOMAIN o.m
    THEN o
    ELSE LET r == InsertBefore(o.mheap, o.head, enter(key, val))
         IN  [o EXCEPT !.mheap = r.h,
                       !.head = r.ret,
                       !.m = [x \in DOMAIN o.m \cup {key} |->
                                IF x = key THEN Prev(r.h, r.ret) ELSE o.m[x]]]

\* Set that inserts a node also for a present key.
Set_AlwaysInserts(om, key, val) ==
    LET o == init(om)
        r == InsertBefore(o.mheap, o.head, enter(key, val))
    IN  [o EXCEPT !.mheap = r.h,
                  !.head = r.ret,
                  !.m = [x \in DOMAIN o.m \cup {key} |->
                           IF x = key THEN Prev(r.h, r.ret) ELSE o.m[x]]]

\* Set that indexes head instead of head.Prev().
Set_IndexesHead(om, key, val) ==
    LET o == init(om) IN
    IF key \in DOMAIN o.m
    THEN [o EXCEPT !.mheap[o.m[key]].Val.val = val]
    ELSE LET r == InsertBefore(o.mheap, o.head, enter(key, val))
         IN  [o EXCEPT !.mheap = r.h,
                       !.head = r.ret,
                       !.m = [x \in DOMAIN o.m \cup {key} |->
                                IF x = key THEN r.ret ELSE o.m[x]]]

\* func (m *OrderedMap[K, V]) Set(key K, val V)
Set(om, key, val) ==
    LET o == init(om) IN
    IF key \in DOMAIN o.m
    THEN [o EXCEPT !.mheap[o.m[key]].Val.val = val]
    ELSE LET r == InsertBefore(o.mheap, o.head, enter(key, val))
         IN  [o EXCEPT !.mheap = r.h,
                       !.head = r.ret,
                       !.m = [x \in DOMAIN o.m \cup {key} |->
                                IF x = key THEN Prev(r.h, r.ret) ELSE o.m[x]]]

\* func (m *OrderedMap[K, V]) Lookup(key K) (val V, ok bool)
Lookup(om, key) ==
    IF key \notin DOMAIN om.m THEN [val |-> zero, ok |-> FALSE]
    ELSE [val |-> om.mheap[om.m[key]].Val.val, ok |-> TRUE]

\* Delete that resets head when the key is absent.
Delete_AbsentResetsHead(om, key) ==
    IF key \notin DOMAIN om.m THEN [om EXCEPT !.head = nil]
    ELSE LET node == om.m[key]
             r    == Remove(om.mheap, node)
         IN  [om EXCEPT !.mheap = r.h,
                        !.head = IF node = om.head THEN Next(r.h, r.ret) ELSE om.head,
                        !.m = [x \in DOMAIN om.m \ {key} |-> om.m[x]]]

\* func (m *OrderedMap[K, V]) Delete(key K)
Delete(om, key) ==
    IF key \notin DOMAIN om.m THEN om
    ELSE LET node == om.m[key]
             r    == Remove(om.mheap, node)
         IN  [om EXCEPT !.mheap = r.h,
                        !.head = IF node = om.head THEN Next(r.h, r.ret) ELSE om.head,
                        !.m = [x \in DOMAIN om.m \ {key} |-> om.m[x]]]

\* Clear that empties the index and keeps head.
Clear_KeepsHead(om) == [om EXCEPT !.m = EmptyFn]

\* func (m *OrderedMap[K, V]) Clear()
Clear(om) == [om EXCEPT !.m = EmptyFn, !.head = nil]

\* func (m *OrderedMap[K, V]) All() iter.Seq2[K, V]
MapAll(om) == Values(om.mheap, om.head)

\* func (m *OrderedMap[K, V]) Keys() iter.Seq[K]
MapKeys(om) ==
    LET a == MapAll(om)
    IN  [out |-> [i \in 1..Len(a.out) |-> a.out[i].key], done |-> a.done]

\* func (m *OrderedMap[K, V]) Values() iter.Seq[V]
MapValues(om) ==
    LET a == MapAll(om)
    IN  [out |-> [i \in 1..Len(a.out) |-> a.out[i].val], done |-> a.done]

-----------------------------------------------------------------------------
(* The map client: any sequence of Set/Lookup/Delete/Clear on a zero-value  *)
(* OrderedMap.                                                              *)

OM == [mheap |-> mheap, m |-> m, mInit |-> mInit, head |-> head]

Becomes(om) ==
    /\ mheap' = om.mheap
    /\ m' = om.m
    /\ mInit' = om.mInit
    /\ head' = om.head

MapCall(op, key, val, ok) == [op |-> op, key |-> key, val |-> val, ok |-> ok]

WithoutKey(ks, k) == SelectSeq(ks, LAMBDA x : x # k)

DoSet(key, val) ==
    /\ UNCHANGED <<lvars, it>>
    /\ key \in DOMAIN m \/ Len(mheap) < MaxMapNodes
    /\ Becomes(Set(OM, key, val))
    /\ order' = IF key \in DOMAIN m THEN order ELSE Append(order, key)
    /\ UNCHANGED mremoved
    /\ mlast' = MapCall("Set", key, val, TRUE)

DoLookup(key) ==
    /\ UNCHANGED <<lvars, it>>
    /\ mlast' = MapCall("Lookup", key, Lookup(OM, key).val, Lookup(OM, key).ok)
    /\ UNCHANGED <<mheap, m, mInit, head, order, mremoved>>

DoDelete(key) ==
    /\ UNCHANGED <<lvars, it>>
    /\ Becomes(Delete(OM, key))
    /\ order' = WithoutKey(order, key)
    /\ mremoved' = mremoved \cup (IF key \in DOMAIN m THEN {m[key]} ELSE {})
    /\ mlast' = MapCall("Delete", key, zero, TRUE)

DoClear ==
    /\ UNCHANGED <<lvars, it>>
    /\ Becomes(Clear(OM))
    /\ order' = <<>>
    /\ UNCHANGED mremoved
    /\ mlast' = MapCall("Clear", 0, zero, TRUE)

\* The consumer starts to range over an iterator of the map: all of them
\* start at m.head.
IterStartMap(kind) ==
    /\ it.pc = "idle"
    /\ it' = [kind |-> kind, list |-> head, cur |-> seqStart(head).cur,
              pc |-> seqStart(head).pc, yielded |-> <<>>, links |-> 0,
              stop |-> FALSE]
    /\ UNCHANGED <<lvars, mvars>>

IterHeap == IF it.kind \in MapKinds THEN mheap ELSE heap

\* seq yields cur and the consumer's yield returns ok.  A walk that does not
\* come back to its start is followed for Len(IterHeap) + 1 yields.
IterYield(ok) ==
    /\ it.pc = "yield"
    /\ Len(it.yielded) <= Len(IterHeap)
    /\ LET t == seqTurn(IterHeap, it.list, it.cur, DirOf(it.kind),
                        yieldResult(Wrappers(it.kind), ok))
       IN  it' = [it EXCEPT !.yielded = Append(@, it.cur),
                            !.cur = t.cur,
                            !.pc = t.pc,
                            !.links = @ + t.followed,
                            !.stop = ~ok]
    /\ UNCHANGED <<lvars, mvars>>

MapInit ==
    /\ mheap = ZeroMap.mheap
    /\ m = ZeroMap.m
    /\ mInit = ZeroMap.mInit
    /\ head = ZeroMap.head
    /\ order = <<>>
    /\ mremoved = {}
    /\ mlast = MapCall("init", 0, zero, TRUE)

-----------------------------------------------------------------------------
(* Specifications: the list client alone, and the map client alone.         *)

Init == ListInit /\ MapInit /\ it = Idle

ListNext ==
    \/ \E vs \in ValSeqs : DoNewList(vs)
    \/ \E list \in Receivers, v \in Vals : DoInsertBefore(list, v)
    \/ \E list \in Receivers, v \in Vals : DoInsertAfter(list, v)
    \/ \E list \in Receivers, vs \in ValSeqs : DoInsertSeqBefore(list, vs)
    \/ \E list \in Receivers, vs \in ValSeqs : DoInsertSeqAfter(list, vs)
    \/ \E list \in Receivers : DoRemove(list)
    \/ \E list \in Receivers : DoPrev(list)
    \/ \E list \in Receivers : DoNext(list)

MapNext ==
    \/ \E key \in Keys, val \in Vals : DoSet(key, val)
    \/ \E key \in Keys : DoLookup(key)
    \/ \E key \in Keys : DoDelete(key)
    \/ DoClear

ListSpec == Init /\ [][ListNext]_vars

\* A client that builds one list, or one map, and then consumes one
\* iterator of it, stopping where it likes.
IterNext ==
    \/ it.pc = "idle" /\ mlast.op = "init"
        /\ \E list \in Receivers, v \in Vals : DoInsertBefore(list, v)
    \/ it.pc = "idle" /\ mlast.op = "init"
        /\ \E list \in Receivers, v \in Vals : DoInsertAfter(list, v)
    \/ it.pc = "idle" /\ mlast.op = "init"
        /\ \E list \in Receivers : DoRemove(list)
    \/ it.pc = "idle" /\ last.op = "init"
        /\ \E key \in Keys, val \in Vals : DoSet(key, val)
    \/ it.pc = "idle" /\ last.op = "init"
        /\ \E key \in Keys : DoDelete(key)
    \/ mlast.op = "init" /\ \E kind \in ListKinds, list \in Receivers : IterStartList(kind, list)
    \/ last.op = "init" /\ \E kind \in MapKinds : IterStartMap(kind)
    \/ \E ok \in BOOLEAN : IterYield(ok)

IterSpec == Init /\ [][IterNext]_vars

\* The zero-value OrderedMap: m.m is nil, head is nil, no node was allocated.
IsZeroMap == ~mInit /\ DOMAIN m = {} /\ head = nil /\ mheap = <<>>

\* Calls on the nil *List and on the zero-value OrderedMap only.
ZeroNext ==
    \/ \E v \in Vals : DoInsertBefore(nil, v)
    \/ \E v \in Vals : DoInsertAfter(nil, v)
    \/ DoRemove(nil)
    \/ DoPrev(nil)
    \/ DoNext(nil)
    \/ IsZeroMap /\ \E key \in Keys, val \in Vals : DoSet(key, val)
    \/ IsZeroMap /\ \E key \in Keys : DoLookup(key)
    \/ IsZeroMap /\ \E key \in Keys : DoDelete(key)
    \/ IsZeroMap /\ DoClear

ZeroSpec == Init /\ [][ZeroNext]_vars

MapSpec == Init /\ [][MapNext]_vars

-----------------------------------------------------------------------------
(* Properties of the list.                                                  *)

Reverse(q) == [i \in 1..Len(q) |-> q[Len(q) + 1 - i]]
Range(q) == {q[i] : i \in 1..Len(q)}

\* C1: link invariant.  In every state reached by NewList, InsertBefore,
\* InsertAfter, InsertSeqBefore, InsertSeqAfter and Remove calls on linked
\* nodes, every linked node n has Prev(Next(n)) = n and Next(Prev(n)) = n
\* (so a node alone in its list is its own prev and next).
C1_LinkInvariant ==
    \A n \in Linked :
        /\ Prev(heap, Next(heap, n)) = n
        /\ Next(heap, Prev(heap, n)) = n
        /\ (ListOf(lists, n) = <<n>> => Prev(heap, n) = n /\ Next(heap, n) = n)

\* C4: the contents track the reference sequence.  As long as nothing was
\* removed, Values() from the first-created node of a list ends and yields
\* the values of the reference sequence, which has one element per insertion.
C4_ValuesTrackReference ==
    removed = {} =>
        \A L \in lists :
            LET a == Values(heap, L[1])
            IN  a.done /\ a.out = ValsOf(heap, L) /\ Len(a.out) = Len(L)

\* C5: traversal from any start.  For every linked node r, All(r) ends,
\* yields r first, and yields every linked node of r's list exactly once.
C5_AllVisitsEveryNodeOnce ==
    \A r \in Linked :
        LET a == All(heap, r)
            L == ListOf(lists, r)
        IN  /\ a.done
            /\ a.out[1] = r
            /\ Range(a.out) = Range(L)
            /\ Len(a.out) = Len(L)

\* C7: InsertBefore splice.  A call ref.InsertBefore(v) on a non-nil linked
\* ref whose predecessor is p returns ref and creates one node n with
\* n.Val = v between p and ref: Prev(ref) = n, Next(n) = ref, Prev(n) = p,
\* Next(p) = n, and no other link or value changes.
C7_InsertBeforeSplice ==
    [][(last'.op = "InsertBefore" /\ last'.list # nil) =>
        LET ref == last'.list
            p   == heap[ref].prev
            n   == Len(heap) + 1
        IN  /\ last'.ret = ref
            /\ Len(heap') = n
            /\ heap'[n].Val = last'.arg[1]
            /\ heap'[ref].prev = n
            /\ heap'[n].next = ref
            /\ heap'[n].prev = p
            /\ heap'[p].next = n
            /\ \A x \in 1..Len(heap) :
                /\ heap'[x].Val = heap[x].Val
                /\ (x # ref => heap'[x].prev = heap[x].prev)
                /\ (x # p => heap'[x].next = heap[x].next)]_vars

\* C8: InsertAfter splice.  A call ref.InsertAfter(v) on a non-nil linked
\* ref whose successor is s returns ref and creates one node n with
\* n.Val = v between ref and s: Next(ref) = n, Prev(n) = ref, Next(n) = s,
\* Prev(s) = n, and no other link or value changes.
C8_InsertAfterSplice ==
    [][(last'.op = "InsertAfter" /\ last'.list # nil) =>
        LET ref == last'.list
            s   == heap[ref].next
            n   == Len(heap) + 1
        IN  /\ last'.ret = ref
            /\ Len(heap') = n
            /\ heap'[n].Val = last'.arg[1]
            /\ heap'[ref].next = n
            /\ heap'[n].prev = ref
            /\ heap'[n].next = s
            /\ heap'[s].prev = n
            /\ \A x \in 1..Len(heap) :
                /\ heap'[x].Val = heap[x].Val
                /\ (x # ref => heap'[x].next = heap[x].next)
                /\ (x # s => heap'[x].prev = heap[x].prev)]_vars

\* C9: Remove unlinks exactly one node.  ref.Remove() on a linked node of a
\* list of at least two nodes returns ref's predecessor; afterwards no
\* remaining node of the list has ref as prev or next, All and Backward from
\* a remaining node do not visit ref, and the remaining nodes keep their
\* cyclic order (a link that went to ref goes to ref's other neighbour, the
\* others are unchanged).  Remove on nil returns nil.
C9_RemoveUnlinks ==
    [][last'.op = "Remove" =>
        IF last'.list = nil THEN last'.ret = nil /\ heap' = heap
        ELSE LET ref  == last'.list
                 L    == ListOf(lists, ref)
                 rest == Range(L) \ {ref}
             IN  Len(L) >= 2 =>
                    /\ last'.ret = heap[ref].prev
                    /\ \A x \in rest :
                        /\ heap'[x].prev # ref
                        /\ heap'[x].next # ref
                        /\ ref \notin Range(All(heap', x).out)
                        /\ ref \notin Range(Backward(heap', x).out)
                        /\ heap'[x].next = IF heap[x].next = ref
                                           THEN heap[ref].next ELSE heap[x].next
                        /\ heap'[x].prev = IF heap[x].prev = ref
                                           THEN heap[ref].prev ELSE heap[x].prev]_vars

\* C10: sequence construction preserves order.  The list returned by
\* NewList(v1..vn) has Values() = v1..vn; read backward from its last node
\* (Backward yields its receiver first) it has ValuesBackward() = vn..v1.
C10_NewListOrder ==
    last.op = "NewList" =>
        LET f == Values(heap, last.ret)
            b == ValuesBackward(heap, Prev(heap, last.ret))
        IN  /\ f.done /\ f.out = last.arg
            /\ b.done /\ b.out = Reverse(last.arg)

-----------------------------------------------------------------------------
(* Properties of the map.                                                   *)

KeysNow == MapKeys(OM).out
NodesNow == All(mheap, head).out

\* C2: index and list are consistent.  After any sequence of Set, Delete and
\* Clear the keys of the nodes visited from head are exactly the indexed
\* keys, no key is held by two visited nodes, and every indexed key has its
\* node among the visited ones.
C2_IndexListConsistent ==
    /\ Range(KeysNow) = DOMAIN m
    /\ Len(KeysNow) = Cardinality(DOMAIN m)
    /\ \A k \in DOMAIN m : m[k] \in Range(NodesNow)

\* C3: iteration order.  Keys() yields the present keys, each once, in the
\* order in which their current occupancy began; setting a present key again
\* does not move it.
C3_KeysInOccupancyOrder ==
    MapKeys(OM).done /\ KeysNow = order

\* C6: Delete of the head entry.  When Delete(k) removes the node that is
\* head, head becomes that node's former successor if keys remain, and
\* iteration yields the remaining keys in their former order; head becomes
\* nil if no key remains; Keys() does not yield k.
C6_DeleteHeadReanchors ==
    [][(mlast'.op = "Delete" /\ mlast'.key \in DOMAIN m /\ m[mlast'.key] = head) =>
        LET k == mlast'.key
        IN  /\ DOMAIN m' # {} =>
                /\ head' = mheap[head].next
                /\ KeysNow' = WithoutKey(KeysNow, k)
            /\ DOMAIN m' = {} => head' = nil
            /\ k \notin Range(KeysNow')]_vars

LookupNow(k) == Lookup(OM, k)
LookupAfter(k) == Lookup(OM', k)
Found(v) == [val |-> v, ok |-> TRUE]
NotFound == [val |-> zero, ok |-> FALSE]

\* C11: round trip.  Right after Set(k, v), Lookup(k) is (v, true); right
\* after Delete(k), Lookup(k) is (zero, false); in both cases Lookup of every
\* other key is what it was before the call.
C11_LookupRoundTrip ==
    [][/\ mlast'.op = "Set" =>
            /\ LookupAfter(mlast'.key) = Found(mlast'.val)
            /\ \A j \in Keys \ {mlast'.key} : LookupAfter(j) = LookupNow(j)
       /\ mlast'.op = "Delete" =>
            /\ LookupAfter(mlast'.key) = NotFound
            /\ \A j \in Keys \ {mlast'.key} : LookupAfter(j) = LookupNow(j)]_vars

\* A present key was set to a new value while another key is present.
C11_Witness ==
    /\ mlast.op = "Set"
    /\ Cardinality(DOMAIN m) >= 2
    /\ m[mlast.key] # Len(mheap)
    /\ mheap[m[mlast.key]].Val.val = 2

\* C12: Set of a present key is an update in place.  It changes the value in
\* the key's node and nothing else: head, every prev and next, the indexed
\* keys and their nodes, and so what Keys() yields, are as before.
C12_SetPresentInPlace ==
    [][(mlast'.op = "Set" /\ mlast'.key \in DOMAIN m) =>
        /\ head' = head
        /\ m' = m
        /\ Len(mheap') = Len(mheap)
        /\ \A n \in 1..Len(mheap) :
            /\ mheap'[n].prev = mheap[n].prev
            /\ mheap'[n].next = mheap[n].next
            /\ mheap'[n].Val = IF n = m[mlast'.key]
                               THEN enter(mlast'.key, mlast'.val)
                               ELSE mheap[n].Val
        /\ KeysNow' = KeysNow]_vars

\* The value of a present key that is not the newest node was changed.
C12_Witness ==
    /\ mlast.op = "Set"
    /\ mlast.key \in DOMAIN m
    /\ Len(mheap) >= 2
    /\ m[mlast.key] = 1
    /\ mheap[1].Val.val = 2
    /\ mremoved = {}

\* C13: Delete of an absent key does nothing, also on the zero-value map:
\* the index, head, and every node's links and value are unchanged.
C13_DeleteAbsentNoOp ==
    [][(mlast'.op = "Delete" /\ mlast'.key \notin DOMAIN m) =>
        /\ mheap' = mheap
        /\ m' = m
        /\ mInit' = mInit
        /\ head' = head]_vars

\* Delete was called on a map that holds keys and never had a node removed,
\* so the key it was called with was absent.
C13_Witness ==
    /\ mlast.op = "Delete"
    /\ mremoved = {}
    /\ DOMAIN m # {}
    /\ head # nil

\* C14: Clear resets to the empty map.  Right after Clear the index is empty
\* and head is nil, Keys(), All() and Values() yield nothing and Lookup finds
\* no key; a Set(k, v) that follows makes Lookup(k) = (v, true) and Keys()
\* yield k.
C14_ClearResets ==
    /\ [](mlast.op = "Clear" =>
            /\ DOMAIN m = {}
            /\ head = nil
            /\ KeysNow = <<>> /\ MapKeys(OM).done
            /\ MapAll(OM).out = <<>>
            /\ MapValues(OM).out = <<>>
            /\ \A k \in Keys : LookupNow(k) = NotFound)
    /\ [][(mlast.op = "Clear" /\ mlast'.op = "Set") =>
            /\ LookupAfter(mlast'.key) = Found(mlast'.val)
            /\ KeysNow' = <<mlast'.key>>]_vars

\* A map that held a key was cleared and a key was set afterwards: two nodes
\* were allocated, none was removed, and one key is indexed.
C14_Witness ==
    /\ mlast.op = "Set"
    /\ Len(mheap) >= 2
    /\ mremoved = {}
    /\ Cardinality(DOMAIN m) = 1
    /\ KeysNow = <<mlast.key>>

\* C20: the index points at the owning node.  For every indexed key k the
\* indexed node holds an entry with key k, two keys never share a node, and
\* no indexed node was ever the receiver of Remove.
C20_IndexOwnsNode ==
    \A k \in DOMAIN m :
        /\ m[k] \in 1..Len(mheap)
        /\ mheap[m[k]].Val.key = k
        /\ m[k] \notin mremoved
        /\ \A j \in DOMAIN m : j # k => m[j] # m[k]

\* Two keys are indexed after a node was removed.
C20_Witness ==
    /\ Cardinality(DOMAIN m) >= 2
    /\ mremoved # {}

-----------------------------------------------------------------------------
(* More properties of the list.                                             *)

\* C15: traversal terminates.  For every linked node r, All(r) and
\* Backward(r) consumed to the end stop after finitely many yields: the walk
\* by next, and the walk by prev, is back at r after exactly as many steps
\* as r's list has nodes.
C15_TraversalTerminates ==
    \A r \in Linked :
        LET f == All(heap, r)
            b == Backward(heap, r)
            n == Len(ListOf(lists, r))
        IN  /\ f.done /\ Len(f.out) = n
            /\ b.done /\ Len(b.out) = n

\* C18: InsertSeqAfter keeps the order of the sequence.  If Values() from a
\* non-nil ref is the finite sequence r, x1..xk, then after
\* ref.InsertSeqAfter(s1..sn) the result is ref and Values() from it is
\* r, s1..sn, x1..xk; on nil the result is the node holding s1 and Values()
\* from it is s1..sn.
C18_InsertSeqAfterOrder ==
    [][last'.op = "InsertSeqAfter" =>
        LET ref   == last'.list
            vs    == last'.arg
            ret   == last'.ret
            pre   == Values(heap, ref)
            after == Values(heap', ret)
        IN  IF ref = nil
            THEN /\ after.done /\ after.out = vs
                 /\ vs # <<>> => ret = Len(heap) + 1 /\ heap'[ret].Val = vs[1]
                 /\ vs = <<>> => ret = nil
            ELSE pre.done =>
                    /\ ret = ref
                    /\ after.done
                    /\ after.out = <<Head(pre.out)>> \o vs \o Tail(pre.out)]_vars

\* Two different values were inserted after a node from which Values() ends.
C18_Witness ==
    /\ last.op = "InsertSeqAfter"
    /\ last.list # nil
    /\ Len(last.arg) >= 2
    /\ last.arg[1] # last.arg[2]
    /\ Values(heap, last.ret).done
    /\ Len(Values(heap, last.ret).out) = 1 + Len(last.arg)

\* C19: removing the sole node does not give the empty list.  Remove() on a
\* node that is its own prev and next returns that node, not nil, leaves its
\* prev and next at itself, and All() from the result yields one element.
C19_RemoveSoleNode ==
    [][(last'.op = "Remove" /\ last'.list # nil
            /\ heap[last'.list].prev = last'.list
            /\ heap[last'.list].next = last'.list) =>
        LET ref == last'.list
        IN  /\ last'.ret = ref
            /\ last'.ret # nil
            /\ heap'[ref].prev = ref
            /\ heap'[ref].next = ref
            /\ All(heap', last'.ret) = [out |-> <<ref>>, done |-> TRUE]]_vars

\* Remove was called on the only node of its list and returned it.
C19_Witness ==
    /\ last.op = "Remove"
    /\ last.list # nil
    /\ last.ret = last.list
    /\ heap[last.list].prev = last.list
    /\ heap[last.list].next = last.list

-----------------------------------------------------------------------------
(* The empty containers.                                                    *)

NothingYielded == [out |-> <<>>, done |-> TRUE]

\* C16: nil and the zero-value map are valid empty containers.  On a nil
\* *List, Prev, Next and Remove return nil and change nothing, All, Backward,
\* Values and ValuesBackward yield nothing, and InsertBefore and InsertAfter
\* return one new node holding v that is its own prev and next.  On a
\* zero-value OrderedMap, Lookup finds nothing, Delete and Clear change
\* nothing, Keys() yields nothing, and Set makes the key present.  A step is
\* a list call when it changes last and a map call when it changes mlast.
C16_EmptyContainers ==
    /\ [](/\ All(heap, nil) = NothingYielded
          /\ Backward(heap, nil) = NothingYielded
          /\ Values(heap, nil) = NothingYielded
          /\ ValuesBackward(heap, nil) = NothingYielded
          /\ IsZeroMap => MapKeys(OM) = NothingYielded)
    /\ [][/\ (last' # last /\ last'.list = nil
                    /\ last'.op \in {"Prev", "Next", "Remove"}) =>
                last'.ret = nil /\ heap' = heap
          /\ (last' # last /\ last'.list = nil
                    /\ last'.op \in {"InsertBefore", "InsertAfter"}) =>
                LET n == Len(heap) + 1
                IN  /\ last'.ret = n
                    /\ heap' = Append(heap, [prev |-> n, next |-> n,
                                             Val |-> last'.arg[1]])
          /\ (mlast' # mlast /\ IsZeroMap /\ mlast'.op = "Lookup") =>
                mlast'.val = zero /\ ~mlast'.ok /\ OM' = OM
          /\ (mlast' # mlast /\ IsZeroMap /\ mlast'.op \in {"Delete", "Clear"}) =>
                OM' = OM
          /\ (mlast' # mlast /\ IsZeroMap /\ mlast'.op = "Set") =>
                /\ LookupAfter(mlast'.key) = Found(mlast'.val)
                /\ KeysNow' = <<mlast'.key>>]_vars

\* InsertAfter was called on nil after another list existed, and Set was
\* called on the zero-value map.
C16_Witness ==
    /\ last.op = "InsertAfter"
    /\ last.list = nil
    /\ last.ret = Len(heap)
    /\ Len(heap) >= 2
    /\ mlast.op = "Set"
    /\ Len(mheap) = 1

-----------------------------------------------------------------------------
(* The iterators.                                                           *)

\* C17: early termination is honoured.  Once the consumer's yield has
\* returned false after the k-th element, the iterator has returned: yield is
\* not called again and no further prev or next is followed, so only the
\* links of the first k - 1 yielded nodes were ever read.
C17_EarlyTermination ==
    /\ [](it.stop =>
            /\ it.pc = "done"
            /\ it.links = Len(it.yielded) - 1
            /\ it.cur = it.yielded[Len(it.yielded)])
    /\ [][it.stop =>
            /\ it'.yielded = it.yielded
            /\ it'.links = it.links
            /\ it'.cur = it.cur]_vars

\* ValuesBackward was stopped after its second element while a third node
\* was still ahead.
C17_Witness ==
    /\ it.stop
    /\ it.kind = "ValuesBackward"
    /\ Len(it.yielded) = 2
    /\ Prev(heap, it.cur) # it.list
    /\ Prev(heap, it.cur) \notin Range(it.yielded)

=============================================================================
